---- MODULE Spec2Model ----
(***************************************************************************)
(* Model of src/src/user_agents/user_agent.rs: the DeviceInfo record, its  *)
(* predicates and get_device_info, the classifier of User-Agent strings.   *)
(*                                                                         *)
(* A Rust &str / String is a sequence of one-character strings, so that    *)
(* to_lowercase, starts_with, contains, split and parse are computed       *)
(* character by character.  A u32 is a pair <<hi, lo>> of 16-bit limbs     *)
(* (value hi * 65536 + lo), since the full 32-bit unsigned range is needed.*)
(* An Option is a sequence of length 0 (None) or 1 (Some(v)).              *)
(***************************************************************************)
EXTENDS Integers, Sequences, FiniteSets, TLC

VARIABLES user_agent, parsed, w_result, result, pc, ret

vars == <<user_agent, parsed, w_result, result, pc, ret>>

----------------------------------------------------------------------------
(* Bounds of the input space *)

\* Longest generated version string (over VersionAlphabet).
MaxVersionLen == 2

----------------------------------------------------------------------------
(* String literals of the source *)

s_empty == <<>>
s_firefox_ios == <<"f", "i", "r", "e", "f", "o", "x", "-", "i", "o", "s">>
s_firefox_slash == <<"f", "i", "r", "e", "f", "o", "x", "/">>
s_firefox == <<"f", "i", "r", "e", "f", "o", "x">>
s_safari == <<"s", "a", "f", "a", "r", "i">>
s_smartphone == <<"s", "m", "a", "r", "t", "p", "h", "o", "n", "e">>
s_pc == <<"p", "c">>
s_iphone == <<"i", "p", "h", "o", "n", "e">>
s_ipad == <<"i", "p", "a", "d">>
s_windows == <<"w", "i", "n", "d", "o", "w", "s">>
s_mac_osx == <<"m", "a", "c", " ", "o", "s", "x">>
s_linux == <<"l", "i", "n", "u", "x">>
s_android == <<"a", "n", "d", "r", "o", "i", "d">>

----------------------------------------------------------------------------
(* str operations of the standard library, as the source uses them *)

UpperAlpha ==
    <<"A", "B", "C", "D", "E", "F", "G", "H", "I", "J", "K", "L", "M",
      "N", "O", "P", "Q", "R", "S", "T", "U", "V", "W", "X", "Y", "Z">>

LowerAlpha ==
    <<"a", "b", "c", "d", "e", "f", "g", "h", "i", "j", "k", "l", "m",
      "n", "o", "p", "q", "r", "s", "t", "u", "v", "w", "x", "y", "z">>

to_lowercase_char(c) ==
    IF \E i \in 1..Len(UpperAlpha) : UpperAlpha[i] = c
    THEN LowerAlpha[CHOOSE i \in 1..Len(UpperAlpha) : UpperAlpha[i] = c]
    ELSE c

\* str::to_lowercase
to_lowercase(s) == [i \in 1..Len(s) |-> to_lowercase_char(s[i])]

\* str::starts_with
starts_with(s, prefix) ==
    /\ Len(prefix) <= Len(s)
    /\ SubSeq(s, 1, Len(prefix)) = prefix

\* str::contains
contains(s, pat) ==
    \E i \in 0..(Len(s) - Len(pat)) : SubSeq(s, i + 1, i + Len(pat)) = pat

\* str::split('.').next(): the text before the first '.', the whole text
\* when there is none (never None: splitting "" yields "").
split_dot_next(s) ==
    IF \E i \in 1..Len(s) : s[i] = "."
    THEN LET first == CHOOSE i \in 1..Len(s) :
                          /\ s[i] = "."
                          /\ \A j \in 1..(i - 1) : s[j] # "."
         IN <<SubSeq(s, 1, first - 1)>>
    ELSE <<s>>

DigitChars == <<"0", "1", "2", "3", "4", "5", "6", "7", "8", "9">>

\* char::to_digit(10): Some(d) for an ASCII digit, None otherwise.
to_digit(c) ==
    IF \E i \in 1..10 : DigitChars[i] = c
    THEN <<(CHOOSE i \in 1..10 : DigitChars[i] = c) - 1>>
    ELSE <<>>

\* The limb base of the <<hi, lo>> representation of a u32.
LimbBase == 65536

u32_zero == <<0, 0>>

\* Variant: wrapping arithmetic in place of the checked operations.
wrapping_mul10_add(n, d) ==
    LET lo == n[2] * 10 + d
        hi == n[1] * 10 + (lo \div LimbBase)
    IN <<(<<hi % LimbBase, lo % LimbBase>>)>>

\* u32::checked_mul(10) followed by u32::checked_add(d), on limbs:
\* None when the result leaves 0 .. 2^32 - 1.
checked_mul10_add(n, d) ==
    LET lo == n[2] * 10 + d
        hi == n[1] * 10 + (lo \div LimbBase)
    IN IF hi >= LimbBase THEN <<>> ELSE <<(<<hi, lo % LimbBase>>)>>

RECURSIVE parse_digits(_, _, _)
parse_digits(s, i, acc) ==
    IF i > Len(s) THEN <<acc>>
    ELSE LET d == to_digit(s[i])
         IN IF d = <<>> THEN <<>>
            ELSE LET next == checked_mul10_add(acc, d[1])
                 IN IF next = <<>> THEN <<>>
                    ELSE parse_digits(s, i + 1, next[1])

\* str::parse::<u32>().ok(): an optional '+', then one or more ASCII digits
\* whose value fits a u32; None for anything else ("" , "+", "-1", "1b").
parse_u32_ok(s) ==
    IF Len(s) = 0 THEN <<>>
    ELSE IF Len(s) = 1 /\ s[1] \in {"+", "-"} THEN <<>>
    ELSE IF s[1] = "+" THEN parse_digits(s, 2, u32_zero)
    ELSE parse_digits(s, 1, u32_zero)

----------------------------------------------------------------------------
(* The types of the source *)

Platform == {"FirefoxDesktop", "Fenix", "FirefoxIOS", "Other"}

DeviceFamily == {"Desktop", "Mobile", "Tablet", "Other"}

OsFamily == {"Windows", "MacOs", "Linux", "IOS", "Android", "Other"}

U32 == (0..(LimbBase - 1)) \X (0..(LimbBase - 1))

DeviceInfo ==
    [platform : Platform, device_family : DeviceFamily,
     os_family : OsFamily, firefox_version : U32]

\* #[derive(Default)] with the #[default] variants.
DeviceInfoDefault ==
    [platform |-> "Other", device_family |-> "Other",
     os_family |-> "Other", firefox_version |-> u32_zero]

\* WootheeResult::default(), the baseline substituted when the parser
\* produces no result: empty strings.
WootheeResultDefault ==
    [name |-> s_empty, category |-> s_empty, os |-> s_empty,
     version |-> s_empty]

----------------------------------------------------------------------------
(* DeviceInfo's predicates *)

is_desktop(d) ==
    \/ d.device_family = "Desktop"
    \/ d.os_family \in {"MacOs", "Windows", "Linux"}

is_mobile(d) ==
    /\ d.device_family = "Mobile"
    /\ d.os_family \in {"Android", "IOS"}

\* Variant: is_ios decided by the operating system alone.
is_ios_by_os(d) == d.os_family = "IOS"

is_ios(d) ==
    /\ d.device_family = "Mobile"
    /\ d.os_family = "IOS"

is_fenix(d) ==
    /\ d.device_family = "Mobile"
    /\ d.os_family = "Android"

----------------------------------------------------------------------------
(* The steps of get_device_info *)

\* Variant: Option::unwrap, which panics on None.
unwrap(opt) == opt

\* Option::unwrap_or_default: always a value.
unwrap_or_default(opt) ==
    IF opt = <<>> THEN <<WootheeResultDefault>> ELSE opt

\* Variant: the Firefox-iOS correction marking the device an iPad.
firefox_ios_correction_as_ipad(ua, w) ==
    IF starts_with(to_lowercase(ua), s_firefox_ios)
    THEN [w EXCEPT !.name = s_firefox, !.category = s_smartphone,
                   !.os = s_ipad]
    ELSE w

\* Variant: the Firefox-iOS correction resetting the version as well.
firefox_ios_correction_clears_version(ua, w) ==
    IF starts_with(to_lowercase(ua), s_firefox_ios)
    THEN [w EXCEPT !.name = s_firefox, !.category = s_smartphone,
                   !.os = s_iphone, !.version = s_empty]
    ELSE w

\* The Firefox-iOS correction.
firefox_ios_correction(ua, w) ==
    IF starts_with(to_lowercase(ua), s_firefox_ios)
    THEN [w EXCEPT !.name = s_firefox, !.category = s_smartphone,
                   !.os = s_iphone]
    ELSE w

\* Variant: the Safari test without lower-casing the browser name.
safari_correction_case_sensitive(ua, w) ==
    IF /\ w.name = s_safari
       /\ ~contains(to_lowercase(ua), s_firefox_slash)
    THEN [w EXCEPT !.name = s_firefox, !.category = s_smartphone,
                   !.os = s_ipad]
    ELSE w

\* The Safari-as-iPad correction, applied to the record the first
\* correction left.
safari_correction(ua, w) ==
    IF /\ to_lowercase(w.name) = s_safari
       /\ ~contains(to_lowercase(ua), s_firefox_slash)
    THEN [w EXCEPT !.name = s_firefox, !.category = s_smartphone,
                   !.os = s_ipad]
    ELSE w

\* Variant: the gate accepting any name that starts with "firefox".
is_firefox_by_prefix(w) == starts_with(to_lowercase(w.name), s_firefox)

\* The browser-family gate: TRUE when the call goes on to classify.
is_firefox(w) == to_lowercase(w.name) \in {s_firefox}

\* Variant: "android" matched as a prefix, like "windows".
os_family_of_android_prefix(os) ==
    IF starts_with(os, s_windows) THEN "Windows"
    ELSE IF os = s_mac_osx THEN "MacOs"
    ELSE IF os = s_linux THEN "Linux"
    ELSE IF os = s_iphone \/ os = s_ipad THEN "IOS"
    ELSE IF starts_with(os, s_android) THEN "Android"
    ELSE "Other"

\* os is the lower-cased OS token.
os_family_of(os) ==
    IF starts_with(os, s_windows) THEN "Windows"
    ELSE IF os = s_mac_osx THEN "MacOs"
    ELSE IF os = s_linux THEN "Linux"
    ELSE IF os = s_iphone \/ os = s_ipad THEN "IOS"
    ELSE IF os = s_android THEN "Android"
    ELSE "Other"

\* Variant: the iPad test matching a prefix of the OS token.
device_family_of_ipad_prefix(category, os) ==
    IF category = s_pc THEN "Desktop"
    ELSE IF category = s_smartphone /\ starts_with(os, s_ipad) THEN "Tablet"
    ELSE IF category = s_smartphone THEN "Mobile"
    ELSE "Other"

\* category is matched as the parser produced it; os is lower-cased.
device_family_of(category, os) ==
    IF category = s_pc THEN "Desktop"
    ELSE IF category = s_smartphone /\ os = s_ipad THEN "Tablet"
    ELSE IF category = s_smartphone THEN "Mobile"
    ELSE "Other"

\* Variant: the platform table without its Tablet arm.
platform_of_no_tablet(device_family, os_family) ==
    CASE device_family = "Desktop" -> "FirefoxDesktop"
      [] device_family = "Mobile" ->
            (CASE os_family = "IOS" -> "FirefoxIOS"
               [] os_family = "Android" -> "Fenix"
               [] OTHER -> "Other")
      [] OTHER -> "Other"

platform_of(device_family, os_family) ==
    CASE device_family = "Desktop" -> "FirefoxDesktop"
      [] device_family = "Mobile" ->
            (CASE os_family = "IOS" -> "FirefoxIOS"
               [] os_family = "Android" -> "Fenix"
               [] OTHER -> "Other")
      [] device_family = "Tablet" ->
            (CASE os_family = "IOS" -> "FirefoxIOS"
               [] OTHER -> "Other")
      [] OTHER -> "Other"

\* version.split('.').next().and_then(|v| v.parse::<u32>().ok()).unwrap_or(0)
firefox_version_of(version) ==
    LET seg == split_dot_next(version)
        v == IF seg = <<>> THEN <<>> ELSE parse_u32_ok(seg[1])
    IN IF v = <<>> THEN u32_zero ELSE v[1]

\* The body of get_device_info from the gate on.
device_info_of(w) ==
    IF ~is_firefox(w) THEN DeviceInfoDefault
    ELSE LET os == to_lowercase(w.os)
             os_family == os_family_of(os)
             device_family == device_family_of(w.category, os)
         IN [platform |-> platform_of(device_family, os_family),
             device_family |-> device_family,
             os_family |-> os_family,
             firefox_version |-> firefox_version_of(w.version)]

----------------------------------------------------------------------------
(* Inputs: raw User-Agent strings and the outcomes of the external parser *)

ua_FxA == <<"F", "i", "r", "e", "f", "o", "x", "-", "i", "O", "S", "-", "F", "x", "A", "/", "2", "4">>
ua_Sync == <<"F", "i", "r", "e", "f", "o", "x", "-", "i", "O", "S", "-", "S", "y", "n", "c", "/", "1", "0", "8", ".", "1", "b", "2", "4", "2", "3", "4", " ", "(", "i", "P", "a", "d", ";", " ", "i", "P", "h", "o", "n", "e", " ", "O", "S", " ", "1", "6", ".", "4", ".", "1", ")", " ", "(", "F", "i", "r", "e", "f", "o", "x", ")">>
ua_Desktop == <<"M", "o", "z", "i", "l", "l", "a", "/", "5", ".", "0", " ", "(", "X", "1", "1", ";", " ", "L", "i", "n", "u", "x", " ", "x", "8", "6", "_", "6", "4", ";", " ", "r", "v", ":", "1", "0", "9", ".", "0", ")", " ", "G", "e", "c", "k", "o", "/", "2", "0", "1", "0", "0", "1", "0", "1", " ", "F", "i", "r", "e", "f", "o", "x", "/", "1", "1", "5", ".", "0">>
ua_SafariMac == <<"M", "o", "z", "i", "l", "l", "a", "/", "5", ".", "0", " ", "(", "M", "a", "c", "i", "n", "t", "o", "s", "h", ")", " ", "V", "e", "r", "s", "i", "o", "n", "/", "1", "3", ".", "1", " ", "S", "a", "f", "a", "r", "i", "/", "6", "0", "5", ".", "1", ".", "1", "5">>
ua_IosUpper == <<"F", "I", "R", "E", "F", "O", "X", "-", "I", "O", "S", " ", "F", "I", "R", "E", "F", "O", "X", "/", "9">>
ua_NotPrefix == <<"x", "F", "i", "r", "e", "f", "o", "x", "-", "i", "O", "S", "/", "7">>
ua_ShortPrefix == <<"F", "i", "r", "e", "f", "o", "x", "-", "i", "O">>

\* Raw strings: the two non-standard iOS forms, a desktop Firefox and a
\* Safari signature, the empty string, and near misses of the two string
\* tests (upper case, the prefix not at the start, a truncated prefix).
UserAgents ==
    {ua_FxA, ua_Sync, ua_Desktop, ua_SafariMac, ua_IosUpper, ua_NotPrefix,
     ua_ShortPrefix, s_empty}

Names ==
    {<<"F", "i", "r", "e", "f", "o", "x">>,
     <<"S", "a", "f", "a", "r", "i">>,
     <<"s", "A", "F", "A", "R", "I">>,
     <<"C", "h", "r", "o", "m", "e">>,
     <<"F", "i", "r", "e", "f", "o", "x", "y">>,
     <<"U", "N", "K", "N", "O", "W", "N">>}

Categories ==
    {s_pc, s_smartphone,
     <<"S", "m", "a", "r", "t", "p", "h", "o", "n", "e">>,
     <<"c", "r", "a", "w", "l", "e", "r">>}

OsTokens ==
    {<<"W", "i", "n", "d", "o", "w", "s", " ", "1", "0">>,
     <<"x", "W", "I", "N", "D", "O", "W", "S">>,
     <<"M", "a", "c", " ", "O", "S", "X">>,
     <<"M", "a", "c", " ", "O", "S", "X", " ", "1", "0">>,
     <<"L", "i", "n", "u", "x">>,
     <<"x", "L", "i", "n", "u", "x">>,
     <<"i", "P", "h", "o", "n", "e">>,
     <<"i", "P", "a", "d">>,
     <<"i", "P", "a", "d", "s">>,
     <<"A", "n", "d", "r", "o", "i", "d">>,
     <<"A", "n", "d", "r", "o", "i", "d", "x">>,
     <<"U", "N", "K", "N", "O", "W", "N">>}

VersionAlphabet == {"0", "7", ".", "b", "+"}

\* Version strings: every string over VersionAlphabet up to MaxVersionLen,
\* real version strings, and the values around the top of the u32 range.
Versions ==
    UNION {[1..n -> VersionAlphabet] : n \in 0..MaxVersionLen}
    \cup {<<"2", "4">>,
          <<"1", "0", "8", ".", "1", "b", "2", "4", "2", "3", "4">>,
          <<"1", "1", "5", ".", "0">>,
          <<"-", "1">>,
          <<"4", "2", "9", "4", "9", "6", "7", "2", "9", "5">>,
          <<"4", "2", "9", "4", "9", "6", "7", "2", "9", "7">>,
          <<"0", "0", "4", "2", "9", "4", "9", "6", "7", "2", "9", "5", ".", "1">>,
          <<"9", "9", "9", "9", "9", "9", "9", "9", "9", "9", "9", "9">>}

\* What Parser::new().parse(user_agent) can return: the parser is external,
\* so any record of strings (Some) or no result at all (None).
ParseOutcomes ==
    {<<>>} \cup
    {<<w>> : w \in [name : Names, category : Categories, os : OsTokens,
                    version : Versions]}

NoCall == [fn |-> "none", val |-> FALSE]

----------------------------------------------------------------------------
(* The state machine: one call of get_device_info, then calls of the      *)
(* predicates on the record it returned                                    *)

Init ==
    /\ user_agent \in UserAgents
    /\ parsed \in ParseOutcomes
    /\ w_result = WootheeResultDefault
    /\ result = DeviceInfoDefault
    /\ pc = "call"
    /\ ret = NoCall

\* get_device_info(user_agent).  The call returns unless an expression of
\* its body panics; the only Option it unwraps is the parser's.
get_device_info ==
    /\ pc = "call"
    /\ LET got == unwrap_or_default(parsed)
       IN IF got = <<>>
          THEN /\ pc' = "panicked"
               /\ UNCHANGED <<w_result, result>>
          ELSE LET w1 == firefox_ios_correction(user_agent, got[1])
                   w2 == safari_correction(user_agent, w1)
               IN /\ w_result' = w2
                  /\ result' = device_info_of(w2)
                  /\ pc' = "returned"
    /\ UNCHANGED <<user_agent, parsed, ret>>

call_is_desktop ==
    /\ pc = "returned"
    /\ ret' = [fn |-> "is_desktop", val |-> is_desktop(result)]
    /\ UNCHANGED <<user_agent, parsed, w_result, result, pc>>

call_is_mobile ==
    /\ pc = "returned"
    /\ ret' = [fn |-> "is_mobile", val |-> is_mobile(result)]
    /\ UNCHANGED <<user_agent, parsed, w_result, result, pc>>

call_is_ios ==
    /\ pc = "returned"
    /\ ret' = [fn |-> "is_ios", val |-> is_ios(result)]
    /\ UNCHANGED <<user_agent, parsed, w_result, result, pc>>

call_is_fenix ==
    /\ pc = "returned"
    /\ ret' = [fn |-> "is_fenix", val |-> is_fenix(result)]
    /\ UNCHANGED <<user_agent, parsed, w_result, result, pc>>

Next ==
    \/ get_device_info
    \/ call_is_desktop
    \/ call_is_mobile
    \/ call_is_ios
    \/ call_is_fenix

Spec == Init /\ [][Next]_vars

TypeOK ==
    /\ user_agent \in UserAgents
    /\ parsed \in ParseOutcomes
    /\ pc \in {"call", "returned", "panicked"}
    /\ result \in DeviceInfo

----------------------------------------------------------------------------
(* Vocabulary of the properties, stated on the inputs and the result *)

Returned == pc = "returned"

\* The record the external parser handed over (empty strings for None).
Baseline == IF Len(parsed) = 0 THEN WootheeResultDefault ELSE parsed[1]

LowerUa == to_lowercase(user_agent)

\* The raw string starts, case-insensitively, with firefox-ios.
HasIosPrefix ==
    /\ Len(user_agent) >= Len(s_firefox_ios)
    /\ \A i \in 1..Len(s_firefox_ios) : LowerUa[i] = s_firefox_ios[i]

\* The raw string contains, case-insensitively, firefox/.
HasFirefoxSlash ==
    \E k \in 0..Len(user_agent) :
        /\ k + Len(s_firefox_slash) <= Len(user_agent)
        /\ \A i \in 1..Len(s_firefox_slash) : LowerUa[k + i] = s_firefox_slash[i]

BaselineIsSafari == to_lowercase(Baseline.name) = s_safari

\* The browser name after the two correction rules, lower-cased.
CorrectedName ==
    IF HasIosPrefix THEN s_firefox
    ELSE IF BaselineIsSafari /\ ~HasFirefoxSlash THEN s_firefox
    ELSE to_lowercase(Baseline.name)

PassedGate == Returned /\ CorrectedName = s_firefox

IsDigit(c) == c \in {"0", "1", "2", "3", "4", "5", "6", "7", "8", "9"}

DigitValue(c) == CHOOSE d \in 0..9 : DigitChars[d + 1] = c

\* The first '.'-separated segment of a string.
LeadingSegment(v) ==
    CHOOSE seg \in {SubSeq(v, 1, n) : n \in 0..Len(v)} :
        /\ \A i \in 1..Len(seg) : seg[i] # "."
        /\ Len(seg) = Len(v) \/ v[Len(seg) + 1] = "."

\* The digits of a segment, after the sign the integer syntax allows.
Unsigned(seg) ==
    IF Len(seg) > 0 /\ seg[1] = "+" THEN SubSeq(seg, 2, Len(seg)) ELSE seg

IsNumeric(seg) ==
    /\ Len(Unsigned(seg)) > 0
    /\ \A i \in 1..Len(Unsigned(seg)) : IsDigit(Unsigned(seg)[i])

\* A digit string without its leading zeros ("0" for zero).
RECURSIVE Canonical(_)
Canonical(digits) ==
    IF Len(digits) > 1 /\ digits[1] = "0" THEN Canonical(Tail(digits))
    ELSE digits

MaxU32Digits == <<"4", "2", "9", "4", "9", "6", "7", "2", "9", "5">>

\* a <= b for canonical digit strings of equal length.
LexLeq(a, b) ==
    \/ a = b
    \/ \E i \in 1..Len(a) :
          /\ \A j \in 1..(i - 1) : a[j] = b[j]
          /\ DigitValue(a[i]) < DigitValue(b[i])

FitsU32(digits) ==
    LET c == Canonical(digits)
    IN \/ Len(c) < Len(MaxU32Digits)
       \/ Len(c) = Len(MaxU32Digits) /\ LexLeq(c, MaxU32Digits)

\* The decimal digits of a u32 (the empty string for zero).
RECURSIVE Decimal(_)
Decimal(n) ==
    IF n = u32_zero THEN <<>>
    ELSE LET t == (n[1] % 10) * LimbBase + n[2]
         IN Append(Decimal(<<n[1] \div 10, t \div 10>>), DigitChars[(t % 10) + 1])

Display(n) == IF n = u32_zero THEN <<"0">> ELSE Decimal(n)

\* n is the leading integer of version string v, 0 when there is none.
IsLeadingIntegerOf(n, v) ==
    LET seg == LeadingSegment(v)
    IN IF IsNumeric(seg) /\ FitsU32(Unsigned(seg))
       THEN Display(n) = Canonical(Unsigned(seg))
       ELSE n = u32_zero

u32_24 == <<0, 24>>
u32_108 == <<0, 108>>

----------------------------------------------------------------------------
(* C1 *)

\* C1: in every record get_device_info returns, the default record of the
\* gate included, platform is the value the platform table gives for the
\* record's (device_family, os_family): Desktop -> FirefoxDesktop,
\* Mobile+IOS -> FirefoxIOS, Mobile+Android -> Fenix, Tablet+IOS ->
\* FirefoxIOS, every other pair -> Other.
C1_PlatformFromTable ==
    Returned =>
        LET d == result.device_family
            o == result.os_family
        IN /\ d = "Desktop" => result.platform = "FirefoxDesktop"
           /\ d = "Mobile" /\ o = "IOS" => result.platform = "FirefoxIOS"
           /\ d = "Mobile" /\ o = "Android" => result.platform = "Fenix"
           /\ d = "Tablet" /\ o = "IOS" => result.platform = "FirefoxIOS"
           /\ ~ \/ d = "Desktop"
                \/ d = "Mobile" /\ o \in {"IOS", "Android"}
                \/ d = "Tablet" /\ o = "IOS"
              => result.platform = "Other"

\* A classified tablet: the Tablet+IOS row of the table is taken.
C1_Witness ==
    /\ PassedGate
    /\ result.device_family = "Tablet"
    /\ result.platform = "FirefoxIOS"

----------------------------------------------------------------------------
(* C2 *)

\* C2: when the browser name after the two correction rules, lower-cased,
\* is not exactly "firefox", the call returns the default record, whatever
\* the baseline's os, category and version are.
C2_NonFirefoxIsDefault ==
    Returned /\ CorrectedName # s_firefox => result = DeviceInfoDefault

\* A name that only starts with "firefox", with baseline fields that would
\* classify as a desktop with a version.
C2_Witness ==
    /\ Returned
    /\ CorrectedName = <<"f", "i", "r", "e", "f", "o", "x", "y">>
    /\ Baseline.category = s_pc
    /\ Baseline.version = <<"1", "1", "5", ".", "0">>
    /\ result = DeviceInfoDefault

----------------------------------------------------------------------------
(* C3 *)

\* C3: get_device_info is total: for every raw string and every outcome of
\* the parser, None included, the call never panics, every step it takes
\* is a return, and what it returns is a record of the closed enumerations
\* with a u32 version.
C3_Total ==
    /\ [](pc # "panicked")
    /\ [](Returned => result \in DeviceInfo)
    /\ [][pc = "call" => pc' = "returned" /\ result' \in DeviceInfo]_vars

\* The empty string with the parser producing no result.
C3_Witness ==
    /\ Returned
    /\ user_agent = s_empty
    /\ Len(parsed) = 0
    /\ result = DeviceInfoDefault

----------------------------------------------------------------------------
(* C4 *)

\* C4 as stated: "Firefox-iOS-FxA/24" yields FirefoxIOS, IOS, Mobile and
\* version 24, and the Firefox-iOS-Sync/108.1b24234 string yields FirefoxIOS,
\* IOS, Mobile and version 108, the version being read after the slash of
\* the raw string.
C4_VersionFromRaw ==
    Returned =>
        /\ user_agent = ua_FxA =>
              result = [platform |-> "FirefoxIOS", device_family |-> "Mobile",
                        os_family |-> "IOS", firefox_version |-> u32_24]
        /\ user_agent = ua_Sync =>
              result = [platform |-> "FirefoxIOS", device_family |-> "Mobile",
                        os_family |-> "IOS", firefox_version |-> u32_108]

\* C4 amended: every raw string with the firefox-ios prefix yields
\* FirefoxIOS, IOS, Mobile, and firefox_version is the leading integer of
\* the version string the external parser returned, 0 when the parser
\* returned none; the raw string's own digits are not read.
C4_IosPrefix ==
    Returned /\ HasIosPrefix =>
        /\ result.platform = "FirefoxIOS"
        /\ result.os_family = "IOS"
        /\ result.device_family = "Mobile"
        /\ IsLeadingIntegerOf(result.firefox_version, Baseline.version)
        /\ Len(parsed) = 0 => result.firefox_version = u32_zero

\* "Firefox-iOS-FxA/24" with the parser producing no result.
C4_Witness ==
    /\ Returned
    /\ user_agent = ua_FxA
    /\ Len(parsed) = 0
    /\ result.platform = "FirefoxIOS"
    /\ result.firefox_version = u32_zero

----------------------------------------------------------------------------
(* C5 *)

\* C5 as stated: a baseline name of "safari" (any case) and a raw string
\* without firefox/ yield Tablet, IOS, FirefoxIOS, also when the raw string
\* starts with the firefox-ios prefix.
C5_SafariAlwaysTablet ==
    Returned /\ BaselineIsSafari /\ ~HasFirefoxSlash =>
        /\ result.device_family = "Tablet"
        /\ result.os_family = "IOS"
        /\ result.platform = "FirefoxIOS"

\* C5 amended: a baseline name of "safari" (any case) and a raw string
\* without firefox/ yield Tablet, IOS, FirefoxIOS when the raw string does
\* not start with firefox-ios; when it does, the earlier rule has already
\* renamed the browser and the result is Mobile, IOS, FirefoxIOS.
C5_SafariTabletUnlessIosPrefix ==
    Returned /\ BaselineIsSafari /\ ~HasFirefoxSlash =>
        /\ result.os_family = "IOS"
        /\ result.platform = "FirefoxIOS"
        /\ result.device_family = IF HasIosPrefix THEN "Mobile" ELSE "Tablet"

\* The Safari desktop signature, named "Safari" by the parser.
C5_Witness ==
    /\ Returned
    /\ user_agent = ua_SafariMac
    /\ Baseline.name = <<"S", "a", "f", "a", "r", "i">>
    /\ Baseline.category = s_pc
    /\ result.device_family = "Tablet"

----------------------------------------------------------------------------
(* C6 *)

\* C6: past the gate, firefox_version is the first '.'-separated segment
\* of the version string read as a non-negative integer, and 0 when that
\* segment is empty, not a number, or beyond the u32 range: no wrapped or
\* truncated value appears.
C6_VersionIsLeadingInteger ==
    PassedGate =>
        /\ IsLeadingIntegerOf(result.firefox_version, w_result.version)
        /\ ~IsNumeric(LeadingSegment(w_result.version))
              => result.firefox_version = u32_zero

\* A first segment one past the wrap-around point of a u32.
C6_Witness ==
    /\ PassedGate
    /\ w_result.version = <<"4", "2", "9", "4", "9", "6", "7", "2", "9", "7">>
    /\ result.firefox_version = u32_zero

----------------------------------------------------------------------------
(* C7 *)

\* C7: past the gate, os_family follows the lower-cased corrected OS token:
\* a token starting with "windows" -> Windows; exactly "mac osx" -> MacOs;
\* exactly "linux" -> Linux; exactly "iphone" or "ipad" -> IOS; exactly
\* "android" -> Android; anything else -> Other.
C7_OsFamilyMapping ==
    PassedGate =>
        LET t == to_lowercase(w_result.os)
            windows == /\ Len(t) >= 7
                       /\ \A i \in 1..7 : t[i] = s_windows[i]
        IN /\ windows => result.os_family = "Windows"
           /\ t = s_mac_osx => result.os_family = "MacOs"
           /\ t = s_linux => result.os_family = "Linux"
           /\ t \in {s_iphone, s_ipad} => result.os_family = "IOS"
           /\ t = s_android => result.os_family = "Android"
           /\ ~windows /\ t \notin {s_mac_osx, s_linux, s_iphone, s_ipad, s_android}
                 => result.os_family = "Other"

\* A token that only starts with "android".
C7_Witness ==
    /\ PassedGate
    /\ w_result.os = <<"A", "n", "d", "r", "o", "i", "d", "x">>
    /\ result.os_family = "Other"

----------------------------------------------------------------------------
(* C8 *)

SafariRuleFired == Returned /\ ~HasIosPrefix /\ BaselineIsSafari /\ ~HasFirefoxSlash

----------------------------------------------------------------------------
(* C9 *)

\* C9: in every returned record, Tablet implies IOS and FirefoxIOS, Tablet
\* being assigned only when the lower-cased OS token is exactly "ipad".
C9_TabletIsIos ==
    Returned /\ result.device_family = "Tablet" =>
        /\ result.os_family = "IOS"
        /\ result.platform = "FirefoxIOS"
        /\ to_lowercase(w_result.os) = s_ipad

\* A tablet classified from the parser's own fields, no rule involved.
C9_Witness ==
    /\ Returned
    /\ ~SafariRuleFired
    /\ Baseline.os = <<"i", "P", "a", "d">>
    /\ result.device_family = "Tablet"

----------------------------------------------------------------------------
(* C10 *)

\* C10: the correction rules leave the baseline's version field as the
\* parser returned it, so past the gate firefox_version is decided by the
\* baseline's version string alone, whichever rule fired and whatever the
\* raw string holds.
C10_VersionFrame ==
    PassedGate =>
        /\ w_result.version = Baseline.version
        /\ IsLeadingIntegerOf(result.firefox_version, Baseline.version)

\* The firefox-ios rule fired on a raw string whose own digits (24) differ
\* from the baseline's version (115.0).
C10_Witness ==
    /\ PassedGate
    /\ user_agent = ua_FxA
    /\ w_result.name # Baseline.name
    /\ Baseline.version = <<"1", "1", "5", ".", "0">>
    /\ Display(result.firefox_version) = <<"1", "1", "5">>

====
